---- MODULE Spec2Model ----
(***************************************************************************)
(* A model of the underbar.js utility library: the array helpers first,    *)
(* each, map and reduce, and the function decorators once, memoize, delay  *)
(* and throttle together with the host timer facility (setTimeout) the     *)
(* last two rely on.                                                       *)
(*                                                                         *)
(* JavaScript values are tagged records.  Arrays are 1-based sequences in  *)
(* the model; every index that appears in a formula is the JavaScript      *)
(* (0-based) index and is shifted where the sequence is read.              *)
(***************************************************************************)
EXTENDS Integers, Sequences, FiniteSets, TLC

VARIABLES
  \* ---- array helpers (first, map, reduce) ----
  array,        \* the array object passed to the helper (its current content)
  input,        \* the content of that array when the helper was called
  op,           \* the helper that was applied: "none", "first", "map", "reduce"
  params,       \* the other arguments of the call
  ret,          \* the value the helper returned
  iterLog,      \* the calls made to the caller's iterator, in order
  \* ---- _.once ----
  alreadyCalled, result,   \* the closure variables of the function once returns
  onceFunc,                \* invocations of func: [args, ret]
  onceCalls,               \* calls of the returned function: [args, ret]
  \* ---- _.memoize ----
  memo,                    \* the closure's cache object (own properties)
  memoFunc,                \* invocations of func: [args, ret]
  memoCalls,               \* calls of the returned function: [args, ret, invoked]
  \* ---- host timers, _.delay and _.throttle ----
  now,                     \* the host clock, in milliseconds
  timers,                  \* pending setTimeout callbacks: [id, due, ...]
  nextTimer,               \* the id the next setTimeout call returns
  fired,                   \* ids of the timers whose callback has run
  delayCalls,              \* calls of _.delay: [at, wait, args, timer]
  delayFunc,               \* invocations of func by delay's callback: [at, args, timer]
  wait,                    \* the wait argument of _.throttle
  currentlyWaiting,        \* the closure variable of the throttled function
  throttleCalls,           \* calls of the throttled function: [at, args, waiting]
  throttleFunc             \* invocations of func by it: [at, args, call, timer]

pureVars == <<array, input, op, params, ret, iterLog>>
onceVars == <<alreadyCalled, result, onceFunc, onceCalls>>
memoVars == <<memo, memoFunc, memoCalls>>
hostVars == <<now, timers, nextTimer, fired>>
delayVars == <<delayCalls, delayFunc>>
throttleVars == <<wait, currentlyWaiting, throttleCalls, throttleFunc>>
vars == <<pureVars, onceVars, memoVars, hostVars, delayVars, throttleVars>>

(***************************************************************************)
(* Bounds of the model.                                                    *)
(***************************************************************************)
MaxLen == 3        \* longest array passed to a helper
MaxVal == 2        \* numbers 1..MaxVal occur as array elements
MaxCalls == 3      \* calls made to a decorated function
MaxDelays == 2     \* calls made to delay
MaxTime == 3       \* the clock stops advancing here
MaxWait == 2       \* longest wait passed to delay and throttle

(***************************************************************************)
(* JavaScript values.                                                      *)
(***************************************************************************)
Undefined == [t |-> "undefined"]
NaN == [t |-> "NaN"]
Num(k) == [t |-> "number", v |-> k]
Str(s) == [t |-> "string", v |-> s]
Arr(s) == [t |-> "array", v |-> s]

Max(a, b) == IF a > b THEN a ELSE b
Min(a, b) == IF a < b THEN a ELSE b

SeqsUpTo(S, k) == UNION {[1..m -> S] : m \in 0..k}

\* array[i] for a JavaScript index i: undefined outside the array
At(a, i) == IF i + 1 \in DOMAIN a THEN a[i + 1] ELSE Undefined

\* Array.prototype.slice(start, end); end = Undefined when it is not passed
RelIndex(k, len) == IF k < 0 THEN Max(len + k, 0) ELSE Min(k, len)
Slice(a, start, end) ==
  LET len == Len(a)
      from == RelIndex(start, len)
      to == IF end = Undefined THEN len ELSE RelIndex(end.v, len)
  IN  [i \in 1..Max(to - from, 0) |-> a[from + i]]

(***************************************************************************)
(* The array helpers.                                                      *)
(***************************************************************************)
Elems == {Undefined} \cup {Num(k) : k \in 1..MaxVal}
Arrays == SeqsUpTo(Elems, MaxLen)

\* _.identity
Identity(val) == val

\* a variant that tests n for truthiness, so that n = 0 counts as omitted
FirstIfTruthy(a, n) ==
  IF n = Undefined \/ n = Num(0) THEN At(a, 0) ELSE Arr(Slice(a, 0, n))

\* _.first: n = Undefined when the second argument is omitted
First(a, n) == IF n = Undefined THEN At(a, 0) ELSE Arr(Slice(a, 0, n))

\* Functions a caller passes as iterator, by name: _.identity, the item
\* itself, and a - b (NaN unless both are numbers).
ReduceIterators == {"subtract", "item"}
Iterate1(iterator, element) ==
  IF iterator = "identity" THEN Identity(element) ELSE Undefined
Iterate2(iterator, acc, item) ==
  IF iterator = "item" THEN item
  ELSE IF acc.t = "number" /\ item.t = "number" THEN Num(acc.v - item.v)
  ELSE NaN

\* the callback _.map hands to _.each: results.push(iterator(element))
MapCallback(results, iterator, element) == Append(results, Iterate1(iterator, element))

\* the callback _.reduce hands to _.each: accumulator = iterator(accumulator, item)
\* (calls is the record of the iterator's calls)
ReduceCallback(st, iterator, item) ==
  LET r == Iterate2(iterator, st.accumulator, item)
  IN  [accumulator |-> r,
       calls |-> Append(st.calls, [acc |-> st.accumulator, item |-> item, ret |-> r])]

\* A callback is [of, iterator]; st holds the variables it closes over.
Callback(callback, st, value, index, collection) ==
  IF callback.of = "map" THEN MapCallback(st, callback.iterator, value)
  ELSE ReduceCallback(st, callback.iterator, value)

\* the loop of _.each on an array, from index i on
RECURSIVE EachFrom(_, _, _, _)
EachFrom(collection, callback, i, st) ==
  IF i < Len(collection)
    THEN EachFrom(collection, callback, i + 1,
                  Callback(callback, st, At(collection, i), i, collection))
    ELSE st

\* a variant whose loop starts at index 1
EachFromOne(collection, callback, st) == EachFrom(collection, callback, 1, st)

\* _.each(collection, callback) on an array: returns the closure's final state
Each(collection, callback, st) == EachFrom(collection, callback, 0, st)

\* _.map
Map(collection, iterator) ==
  Each(collection, [of |-> "map", iterator |-> iterator], <<>>)

\* a variant that takes an undefined accumulator for "no starting value"
ReduceIfUndefined(collection, iterator, accumulator, argc) ==
  LET acc0 == IF accumulator = Undefined THEN At(collection, 0) ELSE accumulator
      rest == IF accumulator = Undefined
                THEN Slice(collection, 1, Undefined) ELSE collection
  IN  EachFrom(rest, [of |-> "reduce", iterator |-> iterator], 0,
               [accumulator |-> acc0, calls |-> <<>>])

\* _.reduce: argc is arguments.length. Returns the accumulator together with
\* the record of the iterator's calls.
Reduce(collection, iterator, accumulator, argc) ==
  LET acc0 == IF argc < 3 THEN At(collection, 0) ELSE accumulator
      rest == IF argc < 3 THEN Slice(collection, 1, Undefined) ELSE collection
  IN  Each(rest, [of |-> "reduce", iterator |-> iterator],
           [accumulator |-> acc0, calls |-> <<>>])

FirstArgs == {Undefined} \cup {Num(k) : k \in (0 - 1)..(MaxLen + 1)}
StartValues == {Undefined} \cup {Num(k) : k \in 0..1}

ArraysInit ==
  /\ array \in Arrays
  /\ input = array
  /\ op = "none"
  /\ params = <<>>
  /\ ret = Undefined
  /\ iterLog = <<>>

ArraysIdle ==
  /\ array = <<>>
  /\ input = array
  /\ op = "none"
  /\ params = <<>>
  /\ ret = Undefined
  /\ iterLog = <<>>

\* _.first(array, n) and _.first(array)
CallFirst ==
  /\ op = "none"
  /\ \E n \in FirstArgs :
       /\ params' = [n |-> n]
       /\ ret' = First(array, n)
  /\ op' = "first"
  /\ UNCHANGED <<array, input, iterLog>>
  /\ UNCHANGED <<onceVars, memoVars, hostVars, delayVars, throttleVars>>

\* _.map(array, _.identity)
CallMap ==
  /\ op = "none"
  /\ ret' = Arr(Map(array, "identity"))
  /\ op' = "map"
  /\ params' = [iterator |-> "identity"]
  /\ UNCHANGED <<array, input, iterLog>>
  /\ UNCHANGED <<onceVars, memoVars, hostVars, delayVars, throttleVars>>

\* _.reduce(array, iterator) and _.reduce(array, iterator, accumulator)
CallReduce ==
  /\ op = "none"
  /\ \E it \in ReduceIterators, argc \in 2..3 :
       \E start \in IF argc = 3 THEN StartValues ELSE {Undefined} :
         LET r == Reduce(array, it, start, argc)
         IN  /\ params' = [iterator |-> it, argc |-> argc, accumulator |-> start]
             /\ ret' = r.accumulator
             /\ iterLog' = r.calls
  /\ op' = "reduce"
  /\ UNCHANGED <<array, input>>
  /\ UNCHANGED <<onceVars, memoVars, hostVars, delayVars, throttleVars>>

(***************************************************************************)
(* _.once                                                                  *)
(***************************************************************************)
\* func is the caller's function: what it returns is any value, chosen anew
\* at every invocation.
FuncResults == Elems
CallArgs == SeqsUpTo({Num(k) : k \in 1..MaxVal}, 1)

OnceInit ==
  /\ alreadyCalled = FALSE
  /\ result = Undefined
  /\ onceFunc = <<>>
  /\ onceCalls = <<>>

\* a variant that takes an undefined result for "not called yet"
OnceShouldCallIfNoResult == result = Undefined

\* if (!alreadyCalled)
OnceShouldCall == ~alreadyCalled

\* the function _.once returns, called with args
OnceCall(args) ==
  /\ Len(onceCalls) < MaxCalls
  /\ IF OnceShouldCall
       THEN \E r \in FuncResults :
              /\ result' = r
              /\ onceFunc' = Append(onceFunc, [args |-> args, ret |-> r])
              /\ alreadyCalled' = TRUE
       ELSE UNCHANGED <<result, onceFunc, alreadyCalled>>
  /\ onceCalls' = Append(onceCalls, [args |-> args, ret |-> result'])
  /\ UNCHANGED <<pureVars, memoVars, hostVars, delayVars, throttleVars>>

(***************************************************************************)
(* _.memoize                                                               *)
(***************************************************************************)
Function(name) == [t |-> "function", name |-> name]

\* String(v) for the values that occur as arguments
ToStr(v) ==
  CASE v.t = "undefined" -> ""
    [] v.t = "number" -> ToString(v.v)
    [] v.t = "string" -> v.v

\* Array.prototype.toString: the elements' strings joined by commas
RECURSIVE Join(_)
Join(a) ==
  IF Len(a) = 0 THEN ""
  ELSE IF Len(a) = 1 THEN ToStr(a[1])
  ELSE ToStr(a[1]) \o "," \o Join(Tail(a))

\* memo[args]: the property key is the array converted to a string
Key(args) == Join(args)

\* properties every object literal inherits from Object.prototype
ObjectPrototype == {"constructor", "toString", "valueOf", "hasOwnProperty",
                    "isPrototypeOf", "propertyIsEnumerable", "toLocaleString"}

\* reading memo[key]: an own property, else an inherited one, else undefined
MemoGet(key) ==
  IF key \in DOMAIN memo THEN memo[key]
  ELSE IF key \in ObjectPrototype THEN Function(key)
  ELSE Undefined

MemoArgs == {<<>>, <<Num(1)>>, <<Str("1")>>, <<Num(1), Num(2)>>, <<Str("1,2")>>,
             <<Undefined>>, <<Str("toString")>>}

MemoInit ==
  /\ memo = <<>>
  /\ memoFunc = <<>>
  /\ memoCalls = <<>>

\* the function _.memoize returns, called with args
MemoCall(args) ==
  /\ Len(memoCalls) < MaxCalls
  /\ IF MemoGet(Key(args)) # Undefined
       THEN /\ memoCalls' = Append(memoCalls,
                 [args |-> args, ret |-> MemoGet(Key(args)), invoked |-> FALSE])
            /\ UNCHANGED <<memo, memoFunc>>
       ELSE \E r \in FuncResults :
              /\ memo' = [k \in DOMAIN memo \cup {Key(args)} |->
                            IF k = Key(args) THEN r ELSE memo[k]]
              /\ memoFunc' = Append(memoFunc, [args |-> args, ret |-> r])
              /\ memoCalls' = Append(memoCalls,
                   [args |-> args, ret |-> r, invoked |-> TRUE])
  /\ UNCHANGED <<pureVars, onceVars, hostVars, delayVars, throttleVars>>

(***************************************************************************)
(* The host's timers.                                                      *)
(***************************************************************************)
HostInit ==
  /\ now = 0
  /\ timers = {}
  /\ nextTimer = 1
  /\ fired = {}

\* setTimeout(callback, delay): the callback is due delay milliseconds from now
SetTimeout(callback, delay) ==
  /\ timers' = timers \cup {[id |-> nextTimer, due |-> now + delay, callback |-> callback]}
  /\ nextTimer' = nextTimer + 1

\* a pending timer may run once its delay has elapsed
Expired(timer) == timer.due <= now

\* a millisecond passes
Tick ==
  /\ now < MaxTime
  /\ now' = now + 1
  /\ UNCHANGED <<timers, nextTimer, fired>>
  /\ UNCHANGED <<pureVars, onceVars, memoVars, delayVars, throttleVars>>

(***************************************************************************)
(* _.delay                                                                 *)
(***************************************************************************)
DelayInit ==
  /\ delayCalls = <<>>
  /\ delayFunc = <<>>

DelayArgs == {<<>>, <<Num(1)>>, <<Num(1), Num(2)>>}

\* a variant that drops func only, keeping wait among the arguments
DelayArgumentsFromWait(arguments) == Slice(arguments, 1, Undefined)

\* var args = Array.prototype.slice.call(arguments, 2)
DelayArguments(arguments) == Slice(arguments, 2, Undefined)

\* _.delay(func, w, a1, ..., an)
DelayCall(w, a) ==
  /\ Len(delayCalls) < MaxDelays
  /\ SetTimeout([args |-> DelayArguments(<<Function("func"), Num(w)>> \o a)], w)
  /\ delayCalls' = Append(delayCalls,
       [at |-> now, wait |-> w, args |-> a, timer |-> nextTimer])
  /\ UNCHANGED <<now, fired, delayFunc>>
  /\ UNCHANGED <<pureVars, onceVars, memoVars, throttleVars>>

\* the callback delay gave to setTimeout runs: func.apply(this, args)
DelayTimeout(timer) ==
  /\ timer \in timers
  /\ Expired(timer)
  /\ timers' = timers \ {timer}
  /\ fired' = fired \cup {timer.id}
  /\ delayFunc' = Append(delayFunc,
       [at |-> now, args |-> timer.callback.args, timer |-> timer.id])
  /\ UNCHANGED <<now, nextTimer, delayCalls>>
  /\ UNCHANGED <<pureVars, onceVars, memoVars, throttleVars>>

(***************************************************************************)
(* _.throttle                                                              *)
(***************************************************************************)
\* the state after t = _.throttle(func, wait)
ThrottleInit ==
  /\ wait \in 0..MaxWait
  /\ currentlyWaiting = FALSE
  /\ throttleCalls = <<>>
  /\ throttleFunc = <<>>

ThrottleIdle ==
  /\ wait = 0
  /\ currentlyWaiting = FALSE
  /\ throttleCalls = <<>>
  /\ throttleFunc = <<>>

\* a variant that never looks at the flag
ThrottleShouldCallAlways == TRUE

\* if (!currentlyWaiting)
ThrottleShouldCall == ~currentlyWaiting

\* the function _.throttle returns, called with args
ThrottledCall(args) ==
  /\ Len(throttleCalls) < MaxCalls
  /\ throttleCalls' = Append(throttleCalls,
       [at |-> now, args |-> args, pending |-> timers # {}])
  /\ IF ThrottleShouldCall
       THEN /\ throttleFunc' = Append(throttleFunc,
                 [at |-> now, args |-> args, call |-> Len(throttleCalls) + 1,
                  timer |-> nextTimer])
            /\ currentlyWaiting' = TRUE
            /\ SetTimeout([args |-> <<>>], wait)
       ELSE UNCHANGED <<throttleFunc, currentlyWaiting, timers, nextTimer>>
  /\ UNCHANGED <<now, fired, wait>>
  /\ UNCHANGED <<pureVars, onceVars, memoVars, delayVars>>

\* the callback the throttled function gave to setTimeout runs
ThrottleTimeout(timer) ==
  /\ timer \in timers
  /\ Expired(timer)
  /\ timers' = timers \ {timer}
  /\ fired' = fired \cup {timer.id}
  /\ currentlyWaiting' = FALSE
  /\ UNCHANGED <<now, nextTimer, wait, throttleCalls, throttleFunc>>
  /\ UNCHANGED <<pureVars, onceVars, memoVars, delayVars>>

(***************************************************************************)
(* Specifications: one per group of operations.                            *)
(***************************************************************************)
CallOnce == \E args \in CallArgs : OnceCall(args)
CallMemoized == \E args \in MemoArgs : MemoCall(args)
CallDelay == \E w \in 0..MaxWait, a \in DelayArgs : DelayCall(w, a)
DelayTimerFires == \E timer \in timers : DelayTimeout(timer)
CallThrottled == \E args \in CallArgs : ThrottledCall(args)
ThrottleTimerFires == \E timer \in timers : ThrottleTimeout(timer)

Idle == ArraysIdle /\ OnceInit /\ MemoInit /\ HostInit /\ DelayInit /\ ThrottleIdle

InitArrays == ArraysInit /\ OnceInit /\ MemoInit /\ HostInit /\ DelayInit /\ ThrottleIdle
NextArrays == CallFirst \/ CallMap \/ CallReduce
SpecArrays == InitArrays /\ [][NextArrays]_vars

InitOnce == Idle
NextOnce == CallOnce
SpecOnce == InitOnce /\ [][NextOnce]_vars

InitMemoize == Idle
NextMemoize == CallMemoized
SpecMemoize == InitMemoize /\ [][NextMemoize]_vars

InitDelay == Idle
NextDelay == CallDelay \/ DelayTimerFires \/ Tick
SpecDelay == InitDelay /\ [][NextDelay]_vars

InitThrottle == ArraysIdle /\ OnceInit /\ MemoInit /\ HostInit /\ DelayInit /\ ThrottleInit
NextThrottle == CallThrottled \/ ThrottleTimerFires \/ Tick
SpecThrottle == InitThrottle /\ [][NextThrottle]_vars

(***************************************************************************)
(* The properties.                                                         *)
(***************************************************************************)

\* C1: over any sequence of calls of g = _.once(func), func is invoked at most
\* once: by the first call, with that call's arguments; the first call returns
\* what func returned and every later call returns that same value.
OnceInvokesFuncOnce ==
  /\ Len(onceFunc) <= 1
  /\ onceCalls # <<>> =>
       /\ Len(onceFunc) = 1
       /\ onceFunc[1].args = onceCalls[1].args
       /\ onceCalls[1].ret = onceFunc[1].ret
  /\ \A i \in DOMAIN onceCalls : onceCalls[i].ret = onceCalls[1].ret

\* func returned undefined to the first call, and two more calls followed,
\* one of them with other arguments
OnceCalledAgainAfterUndefined ==
  /\ Len(onceCalls) = 3
  /\ onceFunc[1].ret = Undefined
  /\ onceCalls[2].args # onceCalls[1].args

\* C2: over any sequence of calls of m = _.memoize(func), func is invoked at
\* most once per distinct argument list: a call whose arguments equal those of
\* an earlier call returns the result computed then without invoking func, and
\* a call whose arguments differ from every earlier call invokes func.
MemoizeOncePerArgumentList ==
  /\ \A i, j \in DOMAIN memoFunc :
       i # j => memoFunc[i].args # memoFunc[j].args
  /\ \A j \in DOMAIN memoCalls :
       LET earlier == {i \in 1..(j - 1) : memoCalls[i].args = memoCalls[j].args}
       IN  IF earlier # {}
             THEN /\ ~memoCalls[j].invoked
                  /\ \A i \in earlier : memoCalls[j].ret = memoCalls[i].ret
             ELSE memoCalls[j].invoked

\* C3: func is triggered by t = _.throttle(func, wait) at most once in any
\* window of wait milliseconds: two invocations are at least wait apart, the
\* timer started by an invocation has fired before the next one, and a call
\* of t made while a timer is pending never leads to an invocation.
ThrottleAtMostOncePerWindow ==
  /\ \A i, j \in DOMAIN throttleFunc :
       i < j => throttleFunc[j].at - throttleFunc[i].at >= wait
  /\ \A i \in DOMAIN throttleFunc :
       i < Len(throttleFunc) => throttleFunc[i].timer \in fired
  /\ \A c \in DOMAIN throttleCalls :
       throttleCalls[c].pending =>
         ~\E i \in DOMAIN throttleFunc : throttleFunc[i].call = c
  /\ \A i \in DOMAIN throttleFunc :
       /\ throttleFunc[i].call \in DOMAIN throttleCalls
       /\ throttleFunc[i].at = throttleCalls[throttleFunc[i].call].at
       /\ throttleFunc[i].args = throttleCalls[throttleFunc[i].call].args

\* func was triggered, a call during the wait was dropped, and after the
\* timer fired func was triggered again
ThrottleDroppedThenCalledAgain ==
  /\ wait > 0
  /\ Len(throttleFunc) = 2
  /\ \E c \in DOMAIN throttleCalls : throttleCalls[c].pending

\* C4: every call _.delay(func, wait, a1, ..., an) has exactly one timer, due
\* wait milliseconds after the call, that is pending or has fired (it is never
\* cancelled); func is invoked for it never before the timer fires and exactly
\* once when it has, with exactly a1, ..., an.
DelayInvokesOnceWhenTimerFires ==
  /\ Cardinality(timers) + Cardinality(fired) = Len(delayCalls)
  /\ Len(delayFunc) = Cardinality(fired)
  /\ \A c \in DOMAIN delayCalls :
       LET call == delayCalls[c]
           pending == {timer \in timers : timer.id = call.timer}
           invoked == {i \in DOMAIN delayFunc : delayFunc[i].timer = call.timer}
       IN  /\ (pending = {}) = (call.timer \in fired)
           /\ Cardinality(pending) <= 1
           /\ \A timer \in pending : timer.due = call.at + call.wait
           /\ Cardinality(invoked) = IF call.timer \in fired THEN 1 ELSE 0
           /\ \A i \in invoked :
                /\ delayFunc[i].args = call.args
                /\ delayFunc[i].at >= call.at + call.wait

\* func has run with two arguments while another delayed call is still pending
DelayFiredWithTwoArguments ==
  /\ \E i \in DOMAIN delayFunc : Len(delayFunc[i].args) = 2
  /\ timers # {}

FirstReturnsPrefix ==
  op = "first" =>
    /\ array = input
    /\ IF params.n = Undefined
         THEN /\ ret.t # "array"
              /\ ret = IF Len(input) > 0 THEN input[1] ELSE Undefined
         ELSE params.n.v >= 0 =>
                /\ ret.t = "array"
                /\ Len(ret.v) = Min(params.n.v, Len(input))
                /\ \A i \in 1..Len(ret.v) : ret.v[i] = input[i]

\* the first two of three different elements
FirstTwoOfThree ==
  /\ op = "first"
  /\ params.n = Num(2)
  /\ Len(input) = 3
  /\ input[1] # input[2]
  /\ Len(ret.v) = 2

\* C7: _.map(s, _.identity) returns a sequence equal to s: the same length and
\* the same element at every index; s is not modified.
MapIdentityIsEqual ==
  op = "map" =>
    /\ ret.t = "array"
    /\ Len(ret.v) = Len(input)
    /\ \A i \in 1..Len(input) : ret.v[i] = input[i]
    /\ array = input

\* identity mapped over three elements that are not all the same
MapIdentityOverThree ==
  /\ op = "map"
  /\ Len(input) = 3
  /\ input[1] # input[3]
  /\ Len(ret.v) = 3

====
